---- MODULE Spec2Model ----
(***************************************************************************)
(* A model of ha/bin/electionhistory.py: the two passes of main over the   *)
(* log files, the type-switch correlator (find_last_committed_tx and       *)
(* find_next_type_switch sharing one line iterator), the attachment of     *)
(* type switches to election cycles, ElectionCycle.get_log_messages and    *)
(* the final lexicographic sort of the pooled report lines.                *)
(*                                                                         *)
(* A log line is a record of what the code reads of it:                   *)
(*   stamp    : the instant its 28 character prefix parses to, 0 when the  *)
(*              prefix does not parse (parse_timestamp raises ValueError)  *)
(*   zoo, notify, rebound, shutdown, starting :                            *)
(*              the text of the (\d+) group of ZOOCLIENT_INFO_REGEX,       *)
(*              ELECTION_STARTED_REGEX, MASTER_REBOUND_REGEX,              *)
(*              SHUTDOWN_REGEX, STARTING_AS_REGEX, as character codes;     *)
(*              <<>> when the expression does not match the line           *)
(*   tx       : <<n>>, n the integer of the group of the first of          *)
(*              OPENED_LOG_REGEXES that matches; <<>> when none does       *)
(*   startup, branched :                                                   *)
(*              whether STARTUP_FIRST_TIME_REGEX, BRANCHED_DATA_REGEX      *)
(*              match                                                      *)
(*   end      : "master" when line.endswith("as master\n"), "slave" when   *)
(*              line.endswith("as slave\n"), "other" when neither holds    *)
(*   text     : line[30:-1] as character codes (given for the lines        *)
(*              BRANCHED_DATA_REGEX matches: the code reads it of no       *)
(*              other line)                                                *)
(* A line may match any number of the expressions.                         *)
(***************************************************************************)
EXTENDS Integers, Sequences, FiniteSets, TLC

VARIABLES
  logs,             \* args[1:], each path given as the lines of its file
  pc,               \* main's position
  fi,               \* index in log_paths of the file being read
  pos,              \* number of lines the second pass' iterator has consumed
  tx_id,            \* main's local tx_id
  type_switch,      \* main's local type_switch: <<>> is None, <<s>> a switch
  election_cycles,  \* main's election_cycles
  output_messages,  \* main's output_messages
  stdout,           \* what has been printed, a line per element
  emitted,          \* every ServerTypeSwitch find_next_type_switch returned
  error             \* "none", or the exception that ended the run

vars == <<logs, pc, fi, pos, tx_id, type_switch, election_cycles,
          output_messages, stdout, emitted, error>>

MASTER == "master"
SLAVE == "slave"

(***************************************************************************)
(* Bounds of the inputs.                                                   *)
(***************************************************************************)
MaxTs == 4      \* parseable stamps are 1..MaxTs
MaxLen == 2     \* lines of a file drawn over the whole alphabet
MaxBody == 3    \* lines after the election marker in a correlator file
MaxChain == 3   \* tx-id/role-switch pairs in a chain file
MaxPad == 1     \* unrelated lines in each gap of a padded log

Stamps == 1..MaxTs

(***************************************************************************)
(* Text, as character codes.                                               *)
(***************************************************************************)
RECURSIVE Digits(_)
Digits(n) ==
  IF n < 10 THEN <<48 + n>> ELSE Digits(n \div 10) \o <<48 + (n % 10)>>

\* "%s" and "%d" of an integer
Str(n) == IF n < 0 THEN <<45>> \o Digits(-n) ELSE Digits(n)

\* line 110, current_server_id before any ZooClient line: "Unknown server"
UNKNOWN_SERVER == <<85, 110, 107, 110, 111, 119, 110, 32, 115, 101, 114, 118, 101, 114>>

(***************************************************************************)
(* Log lines.                                                              *)
(***************************************************************************)
\* a line that no expression matches
Other ==
  [stamp |-> 0, zoo |-> <<>>, notify |-> <<>>, rebound |-> <<>>,
   startup |-> FALSE, shutdown |-> <<>>, branched |-> FALSE, tx |-> <<>>,
   starting |-> <<>>, end |-> "other", text |-> <<>>]

\* which expressions match a line
IsZooClient(line) == line.zoo # <<>>
IsElectionStarted(line) == line.notify # <<>>
IsMasterRebound(line) == line.rebound # <<>>
IsStartup(line) == line.startup
IsShutdown(line) == line.shutdown # <<>>
IsBranched(line) == line.branched
IsOpenedLog(line) == line.tx # <<>>
IsStartingAs(line) == line.starting # <<>>

\* lines that one expression matches; an id i is written without leading
\* zeros, the text of a branched-data line is given
Zoo(i) == [Other EXCEPT !.zoo = Str(i)]
Elect(s, i) == [Other EXCEPT !.stamp = s, !.notify = Str(i)]
Rebound(s, i) == [Other EXCEPT !.stamp = s, !.rebound = Str(i)]
Startup(s) == [Other EXCEPT !.stamp = s, !.startup = TRUE]
Shutdown(s, i) == [Other EXCEPT !.stamp = s, !.shutdown = Str(i)]
Branched(s, t) == [Other EXCEPT !.stamp = s, !.branched = TRUE, !.text = t]
Tx(t) == [Other EXCEPT !.tx = <<t>>]
Starting(s, i, e) == [Other EXCEPT !.stamp = s, !.starting = Str(i), !.end = e]

\* a line that every expression matching a or b matches (a's groups first)
Both(a, b) ==
  [stamp |-> IF a.stamp # 0 THEN a.stamp ELSE b.stamp,
   zoo |-> IF a.zoo # <<>> THEN a.zoo ELSE b.zoo,
   notify |-> IF a.notify # <<>> THEN a.notify ELSE b.notify,
   rebound |-> IF a.rebound # <<>> THEN a.rebound ELSE b.rebound,
   startup |-> a.startup \/ b.startup,
   shutdown |-> IF a.shutdown # <<>> THEN a.shutdown ELSE b.shutdown,
   branched |-> a.branched \/ b.branched,
   tx |-> IF a.tx # <<>> THEN a.tx ELSE b.tx,
   starting |-> IF a.starting # <<>> THEN a.starting ELSE b.starting,
   end |-> IF a.end # "other" THEN a.end ELSE b.end,
   text |-> IF a.text # <<>> THEN a.text ELSE b.text]

(***************************************************************************)
(* parse_timestamp: the instant of the line's prefix, the offset dropped;  *)
(* int() or strptime raise ValueError on a prefix that does not parse.     *)
(***************************************************************************)
\* (a parse that accepts every prefix)
parse_timestamp_lenient(logline) == [ok |-> TRUE, value |-> logline.stamp]
parse_timestamp(logline) ==
  [ok |-> logline.stamp # 0, value |-> logline.stamp]

(***************************************************************************)
(* Objects.                                                                *)
(***************************************************************************)
ElectionCycle(timestamp, started_by) ==
  [timestamp |-> timestamp, started_by |-> started_by, type_switches |-> <<>>]

\* src is the object's identity: the file and line it was made from
ServerTypeSwitch(timestamp, server_id, mode, tx, src) ==
  [timestamp |-> timestamp, server_id |-> server_id, mode |-> mode,
   tx_id |-> tx, src |-> src]

\* A printed or pooled line, before it is text.
Blank ==
  [type |-> "", timestamp |-> 0, server_id |-> <<>>, mode |-> "", tx_id |-> 0,
   delta |-> 0, warn |-> FALSE, behind |-> 0, behind_server |-> <<>>]
Text(s) == [Blank EXCEPT !.type = s]
ElectionMsg(cycle) ==
  [Blank EXCEPT !.type = "election", !.timestamp = cycle.timestamp,
                !.server_id = cycle.started_by]
EventMsg(tag, ts, payload) ==
  [Blank EXCEPT !.type = tag, !.timestamp = ts, !.server_id = payload]
SwitchMsg(switch, tx_id_delta) ==
  [Blank EXCEPT !.type = "switch", !.timestamp = switch.timestamp,
                !.server_id = switch.server_id, !.mode = switch.mode,
                !.tx_id = switch.tx_id, !.delta = tx_id_delta]
WithWarning(msg, delta, server_id) ==
  [msg EXCEPT !.warn = TRUE, !.behind = delta, !.behind_server = server_id]

\* lines 90-93: one print of four lines, the second empty
USAGE ==
  <<Text("Usage: electionhistory MESSAGES_LOG_LOCATION [MESSAGES_LOG_LOCATION ..]"),
    Text(""),
    Text("Bash lets you use patterns to match multiple logs, for instance:"),
    Text("electionhistory mylogs*/messages.log")>>
NO_CYCLES == "No election cycles found."

(***************************************************************************)
(* The text of a line of the report, which the final sort compares:        *)
(* the codes of its characters.  str(datetime) is a fixed-width text       *)
(* whose order is the instants' order (a zero microsecond part is left     *)
(* out, and the blank that then follows sorts before the "."), so an       *)
(* instant is rendered as one code.                                        *)
(***************************************************************************)
\* line 55: "+%d" % tx_id_delta if tx_id_delta >= 0 else tx_id_delta
FormatDelta(d) == IF d >= 0 THEN <<43>> \o Digits(d) ELSE Str(d)

\* line 84: mode = MASTER if self.mode == MASTER else SLAVE + " "
ModeText(mode) == IF mode = MASTER THEN <<109, 97, 115, 116, 101, 114>> ELSE <<115, 108, 97, 118, 101, 32>>

\* the fixed pieces of the format strings of lines 46, 58, 68, 85, 120-135
ELECTION_STARTED_BY == <<32, 69, 108, 101, 99, 116, 105, 111, 110, 32, 115, 116, 97, 114, 116, 101, 100, 32, 98, 121, 32>>
BECAME == <<32, 98, 101, 99, 97, 109, 101, 32>>
LAST_TX == <<32, 76, 97, 115, 116, 32, 84, 88, 58, 32>>
WARN_MASTER_IS ==
  <<32, 32, 32, 87, 65, 82, 78, 58, 32, 77, 97, 115, 116, 101, 114, 32, 105, 115, 32>>
TRANSACTIONS_BEHIND_SERVER ==
  <<32, 116, 114, 97, 110, 115, 97, 99, 116, 105, 111, 110, 115, 32, 98, 101, 104, 105, 110, 100, 32, 115, 101, 114, 118, 101, 114, 32>>
EVENT_OPEN == <<32, 32, 32, 32, 32, 91>>
MASTER_REBOUND == <<77, 97, 115, 116, 101, 114, 32, 114, 101, 98, 111, 117, 110, 100, 58, 32>>
STARTUP == <<83, 116, 97, 114, 116, 117, 112, 58, 32>>
SHUTDOWN == <<83, 104, 117, 116, 100, 111, 119, 110, 58, 32>>

\* ServerTypeSwitch.__str__ and the formats of main and get_log_messages
Render(msg) ==
  CASE msg.type = "election" ->
         <<msg.timestamp>> \o ELECTION_STARTED_BY \o msg.server_id
    [] msg.type = "switch" ->
         <<msg.timestamp, 32, 32, 32>> \o msg.server_id \o BECAME
           \o ModeText(msg.mode) \o LAST_TX \o Str(msg.tx_id)
           \o <<32, 40>> \o FormatDelta(msg.delta) \o <<41>>
           \o (IF msg.warn
               THEN WARN_MASTER_IS \o Str(msg.behind)
                      \o TRANSACTIONS_BEHIND_SERVER \o msg.behind_server
               ELSE <<>>)
    [] msg.type = "Master rebound" ->
         <<msg.timestamp>> \o EVENT_OPEN \o MASTER_REBOUND \o msg.server_id
           \o <<93>>
    [] msg.type = "Startup" ->
         <<msg.timestamp>> \o EVENT_OPEN \o STARTUP \o msg.server_id \o <<93>>
    [] msg.type = "Shutdown" ->
         <<msg.timestamp>> \o EVENT_OPEN \o SHUTDOWN \o msg.server_id \o <<93>>
    [] msg.type = "Branched data" ->
         <<msg.timestamp>> \o EVENT_OPEN \o msg.server_id \o <<93>>
    [] OTHER -> <<>>

\* s < t for two texts
RECURSIVE LexLess(_, _)
LexLess(s, t) ==
  IF t = <<>> THEN FALSE
  ELSE IF s = <<>> THEN TRUE
  ELSE IF Head(s) # Head(t) THEN Head(s) < Head(t)
  ELSE LexLess(Tail(s), Tail(t))

(***************************************************************************)
(* list.sort and sorted: stable.                                           *)
(***************************************************************************)
Reverse(s) == [i \in 1..Len(s) |-> s[Len(s) + 1 - i]]

\* x placed after every element whose key is not greater than x's
RECURSIVE InsertByTimestamp(_, _)
InsertByTimestamp(sorted, x) ==
  IF sorted = <<>> THEN <<x>>
  ELSE IF x.timestamp < Head(sorted).timestamp THEN <<x>> \o sorted
  ELSE <<Head(sorted)>> \o InsertByTimestamp(Tail(sorted), x)

RECURSIVE SortByTimestampFrom(_, _)
SortByTimestampFrom(sorted, rest) ==
  IF rest = <<>> THEN sorted
  ELSE SortByTimestampFrom(InsertByTimestamp(sorted, Head(rest)), Tail(rest))

\* sorted(seq, key=lambda x: x.timestamp)
SortByTimestamp(seq) == SortByTimestampFrom(<<>>, seq)

RECURSIVE InsertByText(_, _)
InsertByText(sorted, x) ==
  IF sorted = <<>> THEN <<x>>
  ELSE IF LexLess(Render(x), Render(Head(sorted))) THEN <<x>> \o sorted
  ELSE <<Head(sorted)>> \o InsertByText(Tail(sorted), x)

RECURSIVE SortByTextFrom(_, _)
SortByTextFrom(sorted, rest) ==
  IF rest = <<>> THEN sorted
  ELSE SortByTextFrom(InsertByText(sorted, Head(rest)), Tail(rest))

\* (the pooled lines left as pooled)
SortMessagesUnsorted(messages) == messages
\* output_messages.sort(), line 176
SortMessages(messages) == SortByTextFrom(<<>>, messages)

\* (the cycles left in the order the files gave them)
CyclesAsFound(cycles) == cycles
\* lines 139-140: election_cycles.sort(key=timestamp); election_cycles.reverse()
SortCycles(cycles) == Reverse(SortByTimestamp(cycles))

(***************************************************************************)
(* The first pass.                                                         *)
(***************************************************************************)
\* find_election_cycles, consumed by main's loop at lines 103-104, from
\* line i on: the cycles yielded, and the exception that ended it if any
RECURSIVE find_election_cycles(_, _)
find_election_cycles(loglines, i) ==
  IF i > Len(loglines) THEN [cycles |-> <<>>, error |-> "none"]
  ELSE IF IsElectionStarted(loglines[i])
  THEN LET ts == parse_timestamp(loglines[i]) IN
       IF ~ts.ok THEN [cycles |-> <<>>, error |-> "ValueError"]
       ELSE LET rest == find_election_cycles(loglines, i + 1) IN
            [cycles |-> <<ElectionCycle(ts.value, loglines[i].notify)>> \o rest.cycles,
             error |-> rest.error]
  ELSE find_election_cycles(loglines, i + 1)

\* lines 110-136, from line i on with the current server id
RECURSIVE general_events(_, _, _)
general_events(logfile, i, current_server_id) ==
  IF i > Len(logfile) THEN [messages |-> <<>>, error |-> "none"]
  ELSE LET line == logfile[i] IN
    IF IsZooClient(line) THEN general_events(logfile, i + 1, line.zoo)
    ELSE IF \/ IsMasterRebound(line) \/ IsStartup(line)
            \/ IsShutdown(line) \/ IsBranched(line)
    THEN LET ts == parse_timestamp(line) IN
         IF ~ts.ok THEN [messages |-> <<>>, error |-> "ValueError"]
         ELSE LET rest == general_events(logfile, i + 1, current_server_id)
                  msg == IF IsMasterRebound(line)
                         THEN EventMsg("Master rebound", ts.value, line.rebound)
                         ELSE IF IsStartup(line)
                         THEN EventMsg("Startup", ts.value, current_server_id)
                         ELSE IF IsShutdown(line)
                         THEN EventMsg("Shutdown", ts.value, line.shutdown)
                         ELSE EventMsg("Branched data", ts.value, line.text)
              IN [messages |-> <<msg>> \o rest.messages, error |-> rest.error]
    ELSE general_events(logfile, i + 1, current_server_id)

(***************************************************************************)
(* The type-switch correlator.  p is the number of lines the iterator has  *)
(* handed out; each function hands back the iterator's new position.       *)
(***************************************************************************)
RECURSIVE find_last_committed_tx(_, _)
find_last_committed_tx(loglines, p) ==
  IF p >= Len(loglines) THEN [tx_id |-> -1, pos |-> Len(loglines)]
  ELSE IF IsOpenedLog(loglines[p + 1])
  THEN [tx_id |-> loglines[p + 1].tx[1], pos |-> p + 1]
  ELSE find_last_committed_tx(loglines, p + 1)

\* f is the index of the file, kept in the switch as its identity
RECURSIVE find_next_type_switch(_, _, _, _)
find_next_type_switch(loglines, p, tx, f) ==
  IF p >= Len(loglines)
  THEN [switch |-> <<>>, pos |-> Len(loglines), error |-> "none"]
  ELSE LET line == loglines[p + 1] IN
    IF IsStartingAs(line)
    THEN LET timestamp == parse_timestamp(line) IN
         IF ~timestamp.ok
         THEN [switch |-> <<>>, pos |-> p + 1, error |-> "ValueError"]
         ELSE IF line.end \notin {MASTER, SLAVE}
         THEN [switch |-> <<>>, pos |-> p + 1, error |-> "UnboundLocalError"]
         ELSE [switch |-> <<ServerTypeSwitch(timestamp.value, line.starting, line.end,
                                             tx, <<f, p + 1>>)>>,
               pos |-> p + 1, error |-> "none"]
    ELSE find_next_type_switch(loglines, p + 1, tx, f)

\* lines 163-166: the first election, in list order, that started before
RECURSIVE add_to_first_earlier(_, _, _)
add_to_first_earlier(cycles, i, switch) ==
  IF i > Len(cycles) THEN cycles
  ELSE IF cycles[i].timestamp < switch.timestamp
  THEN [cycles EXCEPT ![i].type_switches = Append(@, switch)]
  ELSE add_to_first_earlier(cycles, i + 1, switch)

\* (the first election that did not start later: <= for <)
RECURSIVE add_to_first_not_later(_, _, _)
add_to_first_not_later(cycles, i, switch) ==
  IF i > Len(cycles) THEN cycles
  ELSE IF cycles[i].timestamp <= switch.timestamp
  THEN [cycles EXCEPT ![i].type_switches = Append(@, switch)]
  ELSE add_to_first_not_later(cycles, i + 1, switch)
add_type_switch_not_later(cycles, switch) ==
  add_to_first_not_later(cycles, 1, switch)

add_type_switch(cycles, switch) == add_to_first_earlier(cycles, 1, switch)

(***************************************************************************)
(* ElectionCycle.get_log_messages.                                         *)
(***************************************************************************)
\* (a lag check that leaves the role out)
LagsAnyMode(switch, max_tx_switch) == max_tx_switch.tx_id > switch.tx_id
\* line 66, the lag check
Lags(switch, max_tx_switch) ==
  switch.mode = MASTER /\ max_tx_switch.tx_id > switch.tx_id

\* The loop of lines 52-68 over the sorted switches from the i-th on.
RECURSIVE log_messages_from(_, _, _, _)
log_messages_from(switches, i, max_tx_switch, prev_switch_tx_id) ==
  IF i > Len(switches) THEN <<>>
  ELSE LET switch == switches[i]
           tx_id_delta == switch.tx_id - prev_switch_tx_id
           new_max == IF max_tx_switch.tx_id < switch.tx_id
                      THEN switch ELSE max_tx_switch
           line == SwitchMsg(switch, tx_id_delta)
           out == IF Lags(switch, new_max)
                  THEN WithWarning(line, new_max.tx_id - switch.tx_id,
                                   new_max.server_id)
                  ELSE line
       IN <<out>> \o log_messages_from(switches, i + 1, new_max, switch.tx_id)

\* line 52: sorted(self.type_switches, key=lambda switch: switch.timestamp)
sorted_type_switches(cycle) == SortByTimestamp(cycle.type_switches)

get_log_messages(cycle) ==
  <<ElectionMsg(cycle)>>
    \o log_messages_from(sorted_type_switches(cycle), 1,
                         ServerTypeSwitch(0, Str(-1), SLAVE, -1, <<0, 0>>), 0)

\* lines 173-174
RECURSIVE all_log_messages(_, _)
all_log_messages(cycles, i) ==
  IF i > Len(cycles) THEN <<>>
  ELSE get_log_messages(cycles[i]) \o all_log_messages(cycles, i + 1)

\* (the collected events printed before the message)
PrintNoCyclesAndEvents(out, messages) == out \o messages \o <<Text(NO_CYCLES)>>
\* lines 142-144, what is printed when there is no election cycle
PrintNoCycles(out, messages) == Append(out, Text(NO_CYCLES))

(***************************************************************************)
(* main as a function of its arguments, built from the functions above:    *)
(* what a run on the given files prints, how it ends, and its cycles.      *)
(***************************************************************************)
\* lines 100-136 from the i-th path on
RECURSIVE first_pass(_, _, _, _)
first_pass(paths, i, cycles, messages) ==
  IF i > Len(paths)
  THEN [cycles |-> cycles, messages |-> messages, error |-> "none"]
  ELSE LET found == find_election_cycles(paths[i], 1) IN
    IF found.error # "none"
    THEN [cycles |-> cycles, messages |-> messages, error |-> found.error]
    ELSE LET events == general_events(paths[i], 1, UNKNOWN_SERVER) IN
      IF events.error # "none"
      THEN [cycles |-> cycles, messages |-> messages, error |-> events.error]
      ELSE first_pass(paths, i + 1, cycles \o found.cycles,
                      messages \o events.messages)

\* lines 155-166 on the f-th file, the iterator at p
RECURSIVE second_pass_file(_, _, _, _)
second_pass_file(loglines, f, p, cycles) ==
  IF p >= Len(loglines) THEN [cycles |-> cycles, error |-> "none"]
  ELSE LET tx == find_last_committed_tx(loglines, p + 1)
           found == find_next_type_switch(loglines, tx.pos, tx.tx_id, f)
       IN IF found.error # "none"
          THEN [cycles |-> cycles, error |-> found.error]
          ELSE second_pass_file(loglines, f, found.pos,
                 IF found.switch = <<>> THEN cycles
                 ELSE add_type_switch(cycles, found.switch[1]))

\* lines 150-166 from the f-th path on
RECURSIVE second_pass(_, _, _)
second_pass(paths, f, cycles) ==
  IF f > Len(paths) THEN [cycles |-> cycles, error |-> "none"]
  ELSE LET done == second_pass_file(paths[f], f, 0, cycles) IN
    IF done.error # "none" THEN done
    ELSE second_pass(paths, f + 1, done.cycles)

main(paths) ==
  LET usage == IF Len(paths) = 0 THEN USAGE ELSE <<>>
      first == first_pass(paths, 1, <<>>, <<>>)
      cycles == SortCycles(first.cycles)
      second == second_pass(paths, 1, cycles)
  IN IF first.error # "none"
     THEN [stdout |-> usage, error |-> first.error, cycles |-> <<>>]
     ELSE IF Len(cycles) = 0
     THEN [stdout |-> PrintNoCycles(usage, first.messages), error |-> "none",
           cycles |-> <<>>]
     ELSE IF second.error # "none"
     THEN [stdout |-> usage, error |-> second.error, cycles |-> <<>>]
     ELSE [stdout |-> usage \o SortMessages(first.messages
                                  \o all_log_messages(second.cycles, 1)),
           error |-> "none", cycles |-> second.cycles]

(***************************************************************************)
(* The command lines the model is run on.                                  *)
(***************************************************************************)
SeqsUpTo(S, n) == UNION {[1..k -> S] : k \in 0..n}
Ends == {MASTER, SLAVE, "other"}
Pad(n) == [i \in 1..n |-> Other]

\* line[30:-1] of two branched-data lines
BRANCHED_TEXT == <<66, 114, 97, 110, 99, 104, 101, 100, 32, 100, 97, 116, 97, 32, 111, 99, 99, 117, 114, 114, 101, 100>>
UNEXPECTED_BRANCHED_TEXT ==
  <<85, 110, 101, 120, 112, 101, 99, 116, 101, 100, 58, 32, 66, 114, 97, 110, 99, 104, 101, 100, 32, 100, 97, 116, 97, 32, 111, 99, 99, 117, 114, 114, 101, 100>>

\* lines that several expressions match, and a server id with a leading zero
OverlappingLines ==
  {Both(Tx(80), Starting(2, 1, MASTER)),
   Both(Elect(1, 1), Rebound(1, 2)),
   Both(Zoo(3), Elect(1, 1)),
   Both(Zoo(3), Rebound(0, 1)),
   Both(Rebound(1, 1), Shutdown(1, 2)),
   Both(Startup(1), Branched(1, BRANCHED_TEXT)),
   [Rebound(1, 2) EXCEPT !.rebound = <<48, 50>>]}

\* one file of at most MaxLen lines over every kind of line
FullAlphabet ==
  {Other, Zoo(2), Tx(80)}
    \cup {Elect(s, 1) : s \in 0..MaxTs}
    \cup {Starting(s, 1, e) : s \in 0..MaxTs, e \in Ends}
    \cup {Rebound(s, 1) : s \in 0..1} \cup {Startup(s) : s \in 0..1}
    \cup {Shutdown(s, 1) : s \in 0..1}
    \cup {Branched(s, BRANCHED_TEXT) : s \in 0..1}
    \cup {Branched(1, UNEXPECTED_BRANCHED_TEXT)}
    \cup OverlappingLines
SmallLogs == {<<file>> : file \in SeqsUpTo(FullAlphabet, MaxLen)}

\* one file: an election marker, then any tx-id, role-switch and other lines
CorrAlphabet ==
  {Other, Tx(100), Tx(150), Both(Tx(120), Starting(3, 2, SLAVE))}
    \cup {Starting(s, 1, e) : s \in {0, 2}, e \in Ends}
CorrLogs ==
  {<<(<<Elect(1, 1)>> \o body)>> : body \in SeqsUpTo(CorrAlphabet, MaxBody)}

\* one file: an election marker, then tx-id/role-switch pairs, each pair
\* after the first behind one other line
ChainBlocks == [v : {80, 120}, s : {2, 3}, m : {MASTER, SLAVE}]
RECURSIVE ChainLines(_, _)
ChainLines(blocks, k) ==
  IF k > Len(blocks) THEN <<>>
  ELSE (IF k = 1 THEN <<>> ELSE <<Other>>)
         \o <<Tx(blocks[k].v), Starting(blocks[k].s, k, blocks[k].m)>>
         \o ChainLines(blocks, k + 1)
ChainLogs ==
  UNION {{<<(<<Elect(1, 1)>> \o ChainLines(blocks, 1))>> :
            blocks \in [1..k -> ChainBlocks]} : k \in 1..MaxChain}

\* one file: marker, tx id 100, role switch, tx id 150, role switch, in
\* increasing timestamp order, with unrelated lines around and between them
PaddedLogs ==
  {<<(Pad(p[1]) \o <<Elect(1, 1)>> \o Pad(p[2]) \o <<Tx(100)>> \o Pad(p[3])
        \o <<Starting(2, 1, m[1])>> \o Pad(p[4]) \o <<Tx(150)>> \o Pad(p[5])
        \o <<Starting(3, 2, m[2])>> \o Pad(p[6]))>> :
     p \in [1..6 -> 0..MaxPad], m \in [1..2 -> {MASTER, SLAVE}]}

\* two files: each a marker alone, a line then a tx id and a role switch,
\* one event with a prefix that does not parse, or an event of instant 1
PairFiles ==
  {<<Elect(s, i)>> : s \in Stamps, i \in {1, 2}}
    \cup {<<head, Tx(IF i = 1 THEN 80 ELSE 120), Starting(s, i, MASTER)>> :
            head \in {Other, Elect(1, 1), Elect(2, 1)}, s \in Stamps, i \in {1, 2}}
    \cup {<<Rebound(0, 1)>>, <<Elect(0, 1)>>}
    \cup {<<Startup(1)>>, <<Zoo(2), Startup(1)>>, <<Branched(1, BRANCHED_TEXT)>>}
PairLogs == {<<a, b>> : a \in PairFiles, b \in PairFiles}

\* three files: each a marker alone, or a line then a tx id and a role switch
TripleFiles ==
  {<<Elect(s, 1)>> : s \in Stamps}
    \cup {<<head, Tx(IF i = 1 THEN 80 ELSE 120), Starting(s, i, MASTER)>> :
            head \in {Other, Elect(1, 1)}, s \in Stamps, i \in {1, 2}}
TripleLogs == {<<a, b, c>> : a \in TripleFiles, b \in TripleFiles, c \in TripleFiles}

\* no file at all, or one of the above
Inputs == {<<>>} \cup SmallLogs \cup CorrLogs \cup ChainLogs \cup PaddedLogs
            \cup PairLogs \cup TripleLogs

(***************************************************************************)
(* main, step by step.                                                     *)
(***************************************************************************)
Init ==
  /\ logs \in Inputs
  /\ pc = "start"
  /\ fi = 1
  /\ pos = 0
  /\ tx_id = -1
  /\ type_switch = <<>>
  /\ election_cycles = <<>>
  /\ output_messages = <<>>
  /\ stdout = <<>>
  /\ emitted = <<>>
  /\ error = "none"

\* lines 89-99
Start ==
  /\ pc = "start"
  /\ stdout' = IF Len(logs) = 0 THEN stdout \o USAGE ELSE stdout
  /\ pc' = IF Len(logs) = 0 THEN "sort" ELSE "find_cycles"
  /\ UNCHANGED <<logs, fi, pos, tx_id, type_switch, election_cycles,
                 output_messages, emitted, error>>

\* lines 101-104 on the file at fi
FindElectionCycles ==
  /\ pc = "find_cycles"
  /\ LET found == find_election_cycles(logs[fi], 1) IN
       /\ election_cycles' = election_cycles \o found.cycles
       /\ error' = found.error
       /\ pc' = IF found.error = "none" THEN "events" ELSE "failed"
  /\ UNCHANGED <<logs, fi, pos, tx_id, type_switch, output_messages, stdout,
                 emitted>>

\* lines 107-136 on the file at fi
GeneralEvents ==
  /\ pc = "events"
  /\ LET events == general_events(logs[fi], 1, UNKNOWN_SERVER) IN
       /\ output_messages' = output_messages \o events.messages
       /\ error' = events.error
       /\ pc' = IF events.error # "none" THEN "failed"
                ELSE IF fi < Len(logs) THEN "find_cycles" ELSE "sort"
       /\ fi' = IF events.error = "none" /\ fi < Len(logs) THEN fi + 1 ELSE fi
  /\ UNCHANGED <<logs, pos, tx_id, type_switch, election_cycles, stdout,
                 emitted>>

\* lines 139-144
SortElectionCycles ==
  /\ pc = "sort"
  /\ election_cycles' = SortCycles(election_cycles)
  /\ IF Len(election_cycles) = 0
     THEN /\ stdout' = PrintNoCycles(stdout, output_messages)
          /\ pc' = "done"
          /\ UNCHANGED <<fi, pos>>
     ELSE /\ pc' = "next_line"
          /\ fi' = 1
          /\ pos' = 0
          /\ UNCHANGED stdout
  /\ UNCHANGED <<logs, tx_id, type_switch, output_messages, emitted, error>>

\* line 155: the for loop takes the iterator's next line
NextLine ==
  /\ pc = "next_line"
  /\ pos < Len(logs[fi])
  /\ pos' = pos + 1
  /\ pc' = "find_tx"
  /\ UNCHANGED <<logs, fi, tx_id, type_switch, election_cycles,
                 output_messages, stdout, emitted, error>>

\* lines 150-155: the iterator is exhausted, on to the next file
NextFile ==
  /\ pc = "next_line"
  /\ pos >= Len(logs[fi])
  /\ IF fi < Len(logs)
     THEN fi' = fi + 1 /\ pos' = 0 /\ pc' = "next_line"
     ELSE pc' = "report" /\ UNCHANGED <<fi, pos>>
  /\ UNCHANGED <<logs, tx_id, type_switch, election_cycles, output_messages,
                 stdout, emitted, error>>

\* line 157
FindLastCommittedTx ==
  /\ pc = "find_tx"
  /\ LET found == find_last_committed_tx(logs[fi], pos) IN
       /\ tx_id' = found.tx_id
       /\ pos' = found.pos
  /\ pc' = "find_switch"
  /\ UNCHANGED <<logs, fi, type_switch, election_cycles, output_messages,
                 stdout, emitted, error>>

\* line 159
FindNextTypeSwitch ==
  /\ pc = "find_switch"
  /\ LET found == find_next_type_switch(logs[fi], pos, tx_id, fi) IN
       /\ type_switch' = found.switch
       /\ emitted' = emitted \o found.switch
       /\ pos' = found.pos
       /\ error' = found.error
       /\ pc' = IF found.error = "none" THEN "add" ELSE "failed"
  /\ UNCHANGED <<logs, fi, tx_id, election_cycles, output_messages, stdout>>

\* lines 161-166
AddTypeSwitch ==
  /\ pc = "add"
  /\ election_cycles' = IF type_switch = <<>> THEN election_cycles
                        ELSE add_type_switch(election_cycles, type_switch[1])
  /\ pc' = "next_line"
  /\ UNCHANGED <<logs, fi, pos, tx_id, type_switch, output_messages, stdout,
                 emitted, error>>

\* lines 173-177
Report ==
  /\ pc = "report"
  /\ LET pooled == output_messages \o all_log_messages(election_cycles, 1) IN
       /\ output_messages' = SortMessages(pooled)
       /\ stdout' = stdout \o SortMessages(pooled)
  /\ pc' = "done"
  /\ UNCHANGED <<logs, fi, pos, tx_id, type_switch, election_cycles, emitted,
                 error>>

Next ==
  \/ Start
  \/ FindElectionCycles
  \/ GeneralEvents
  \/ SortElectionCycles
  \/ NextLine
  \/ NextFile
  \/ FindLastCommittedTx
  \/ FindNextTypeSwitch
  \/ AddTypeSwitch
  \/ Report

Spec == Init /\ [][Next]_vars

\* The run is over.
Ended == pc \in {"done", "failed"}

\* The run that main, as a function, makes of the same command line.
MainAgrees ==
  Ended => /\ main(logs).stdout = stdout
           /\ main(logs).error = error
           /\ (pc = "done" => main(logs).cycles = election_cycles)

(***************************************************************************)
(* Helpers of the properties.                                              *)
(***************************************************************************)
SetMax(S) == CHOOSE x \in S : \A y \in S : y <= x
\* <<file, line>> of every line of the command line's files
LinePlaces == UNION {{<<f, j>> : j \in DOMAIN logs[f]} : f \in DOMAIN logs}
LineAt(p) == logs[p[1]][p[2]]

\* the index of the last tx-id line of the file before line j, 0 if none
LastTxIndexBefore(file, j) ==
  LET before == {k \in 1..(j - 1) : IsOpenedLog(file[k])} IN
  IF before = {} THEN 0 ELSE SetMax(before)

\* the switches main has taken through lines 161-166
Handled ==
  IF pc = "add" THEN Len(emitted) - Len(type_switch) ELSE Len(emitted)

\* where a switch is held: <<cycle, place in its type_switches>>
Holders(switch) ==
  {h \in (DOMAIN election_cycles) \X (1..Len(emitted)) :
     /\ h[2] <= Len(election_cycles[h[1]].type_switches)
     /\ election_cycles[h[1]].type_switches[h[2]].src = switch.src}

\* the report lines of each cycle, cycle by cycle
Grouping(cycles) == [c \in DOMAIN cycles |-> get_log_messages(cycles[c])]

Perms(n) == {p \in [1..n -> 1..n] : \A i, j \in 1..n : p[i] = p[j] => i = j}
Permuted(paths, p) == [i \in DOMAIN paths |-> paths[p[i]]]

\* what is printed: the text of each line (the fixed messages by name)
Shown(msg) == <<(IF Render(msg) = <<>> THEN msg.type ELSE ""), Render(msg)>>
Printout(out) == [i \in DOMAIN out |-> Shown(out[i])]

\* a run on the permuted command line groups and prints as this one did
SameOutcome(run) ==
  /\ Printout(run.stdout) = Printout(stdout)
  /\ (run.error = "none") = (error = "none")
  /\ (pc = "done" => Grouping(run.cycles) = Grouping(election_cycles))

(***************************************************************************)
(* C1.  Every switch the correlator emits carries the value of the most    *)
(* recent tx-id line before its role-switch line in the same file.         *)
(* The code takes the first tx-id line after the line the for loop         *)
(* consumed, and skips every later tx-id line before the role switch.      *)
(***************************************************************************)
C1_MostRecentTxId ==
  \A i \in DOMAIN emitted :
    LET file == logs[emitted[i].src[1]]
        k == LastTxIndexBefore(file, emitted[i].src[2])
    IN k # 0 /\ emitted[i].tx_id = file[k].tx[1]

(***************************************************************************)
(* C2.  A single log whose lines other than unrelated ones are, in         *)
(* increasing timestamp order, one election marker, tx id 100, a role      *)
(* switch, tx id 150 and a second role switch gives one cycle with two     *)
(* transitions in ascending order, tx ids 100 and 150, the second's delta  *)
(* +50.                                                                    *)
(***************************************************************************)
IsRelated(line) == line # Other
\* lines that only ELECTION_STARTED_REGEX, only STARTING_AS_REGEX matches
IsMarkerOnly(line) ==
  IsElectionStarted(line) /\ [line EXCEPT !.stamp = 0, !.notify = <<>>] = Other
IsSwitchOnly(line) ==
  /\ IsStartingAs(line)
  /\ [line EXCEPT !.stamp = 0, !.starting = <<>>, !.end = "other"] = Other
MarkerTwoSwitches ==
  /\ Len(logs) = 1
  /\ LET related == SelectSeq(logs[1], IsRelated) IN
       /\ Len(related) = 5
       /\ IsMarkerOnly(related[1])
       /\ related[2] = Tx(100)
       /\ IsSwitchOnly(related[3]) /\ related[3].end \in {MASTER, SLAVE}
       /\ related[4] = Tx(150)
       /\ IsSwitchOnly(related[5]) /\ related[5].end \in {MASTER, SLAVE}
       /\ 0 < related[1].stamp /\ related[1].stamp < related[3].stamp
       /\ related[3].stamp < related[5].stamp

C2_OneCycleTwoTransitions ==
  (MarkerTwoSwitches /\ Ended) =>
     /\ pc = "done"
     /\ Len(election_cycles) = 1
     /\ LET out == get_log_messages(election_cycles[1]) IN
          /\ Len(out) = 3
          /\ out[2].tx_id = 100 /\ out[3].tx_id = 150
          /\ out[2].timestamp < out[3].timestamp
          /\ out[3].delta = 50 /\ FormatDelta(out[3].delta) = <<43, 53, 48>>
          /\ \E i, j \in DOMAIN stdout :
               i < j /\ stdout[i] = out[2] /\ stdout[j] = out[3]

(***************************************************************************)
(* C3.  Walking a cycle's transitions in ascending timestamp order, a      *)
(* line carries a lag warning exactly when its role is MASTER and an       *)
(* earlier transition of the cycle has a strictly greater tx id; the       *)
(* magnitude is the greatest earlier tx id minus this one, and the server  *)
(* named is that of an earlier transition holding that greatest tx id.     *)
(***************************************************************************)
LagWarningOf(cycle) ==
  LET switches == sorted_type_switches(cycle)
      out == get_log_messages(cycle)
  IN /\ Len(out) = Len(switches) + 1
     /\ \A i \in DOMAIN switches :
          LET earlier == {switches[j].tx_id : j \in 1..(i - 1)}
              line == out[i + 1]
          IN /\ line.tx_id = switches[i].tx_id
             /\ line.warn <=> /\ switches[i].mode = MASTER
                              /\ \E t \in earlier : t > switches[i].tx_id
             /\ line.warn =>
                  /\ line.behind = SetMax(earlier) - switches[i].tx_id
                  /\ \E j \in 1..(i - 1) :
                       /\ switches[j].tx_id = SetMax(earlier)
                       /\ switches[j].server_id = line.behind_server

C3_LagWarning ==
  \A c \in DOMAIN election_cycles : LagWarningOf(election_cycles[c])

\* A MASTER with tx id 80, third of its cycle, behind an earlier 120: the
\* warning says 40 and names the server that had 120.
C3_Witness ==
  /\ pc = "done"
  /\ \E c \in DOMAIN election_cycles :
       LET out == get_log_messages(election_cycles[c]) IN
         /\ Len(out) = 4
         /\ out[2].tx_id = 120 /\ out[3].tx_id = 80 /\ out[3].mode = SLAVE
         /\ ~out[3].warn
         /\ out[4].warn /\ out[4].tx_id = 80 /\ out[4].behind = 40
         /\ out[4].behind_server = out[2].server_id
         /\ out[4] \in {stdout[i] : i \in DOMAIN stdout}

(***************************************************************************)
(* C4.  A role-switch line with no tx-id line before it still yields a     *)
(* transition, whose report line shows a placeholder for Last TX and no    *)
(* number.  The code yields no transition for it: find_last_committed_tx   *)
(* returns -1 only with the iterator exhausted, and find_next_type_switch  *)
(* then returns None.                                                      *)
(***************************************************************************)
IsNumber(text) == \A k \in DOMAIN text : text[k] \in (48..57) \cup {45}

C4_PlaceholderForMissingTxId ==
  (pc = "done" /\ Len(election_cycles) > 0) =>
    \A p \in LinePlaces :
      (/\ IsStartingAs(LineAt(p))
       /\ LineAt(p).stamp # 0
       /\ LineAt(p).end \in {MASTER, SLAVE}
       /\ LastTxIndexBefore(logs[p[1]], p[2]) = 0)
      => \E i \in DOMAIN emitted :
           /\ emitted[i].src = p
           /\ ~IsNumber(Str(emitted[i].tx_id))

(***************************************************************************)
(* C5.  The grouping and the report are the same for every order of the    *)
(* files on the command line.  As stated, equal timestamps included, this  *)
(* fails: the stable sorts keep the files' order among equal timestamps.   *)
(***************************************************************************)
C5_AnyFileOrder ==
  Ended => \A p \in Perms(Len(logs)) : SameOutcome(main(Permuted(logs, p)))

\* no two election markers, and no two role-switch lines, of different
\* files carry the same timestamp
DistinctAcrossFiles ==
  \A p, q \in LinePlaces :
    (/\ p[1] # q[1]
     /\ \/ IsElectionStarted(LineAt(p)) /\ IsElectionStarted(LineAt(q))
        \/ IsStartingAs(LineAt(p)) /\ IsStartingAs(LineAt(q)))
    => LineAt(p).stamp # LineAt(q).stamp

\* C5 as amended: the same, for command lines on which no two election
\* markers of different files and no two role-switch lines of different
\* files carry equal timestamps.
C5_AnyFileOrderDistinct ==
  (Ended /\ DistinctAcrossFiles) =>
    \A p \in Perms(Len(logs)) : SameOutcome(main(Permuted(logs, p)))

\* Two different files, each giving a cycle and a transition, the two
\* transitions in one cycle.
C5_Witness ==
  /\ pc = "done"
  /\ Len(logs) = 2 /\ logs[1] # logs[2]
  /\ DistinctAcrossFiles
  /\ Len(election_cycles) = 2
  /\ \E c \in DOMAIN election_cycles :
       LET held == election_cycles[c].type_switches IN
         Len(held) = 2 /\ held[1].src[1] # held[2].src[1]

(***************************************************************************)
(* C6.  After the second pass every transition is attached to at most      *)
(* one cycle: the one with the greatest start that is strictly less than   *)
(* the transition's timestamp, or none when no cycle started before it.    *)
(***************************************************************************)
C6_AttachedToLatestEarlierCycle ==
  \A i \in 1..Handled :
    LET switch == emitted[i]
        earlier == {c \in DOMAIN election_cycles :
                      election_cycles[c].timestamp < switch.timestamp}
    IN /\ Cardinality(Holders(switch)) <= 1
       /\ \A h \in Holders(switch) :
            /\ h[1] \in earlier
            /\ \A c \in earlier :
                 election_cycles[c].timestamp <= election_cycles[h[1]].timestamp
       /\ (Holders(switch) = {}) <=> (earlier = {})

\* One transition dropped, one attached to the later of two earlier cycles.
C6_Witness ==
  /\ pc = "done"
  /\ \E i, j \in DOMAIN emitted :
       /\ Holders(emitted[i]) = {}
       /\ \E h \in Holders(emitted[j]) : \E c \in DOMAIN election_cycles :
            election_cycles[c].timestamp < election_cycles[h[1]].timestamp

(***************************************************************************)
(* C7.  Files with no election marker and no role-switch line: the run     *)
(* prints the single line "No election cycles found." and does not fail;   *)
(* with no file at all it does not fail either.  As stated this fails on   *)
(* a master-rebound, startup, shutdown or branched-data line whose         *)
(* timestamp does not parse: the first pass raises.                        *)
(***************************************************************************)
NoMarkerNoSwitch ==
  \A p \in LinePlaces :
    ~IsElectionStarted(LineAt(p)) /\ ~IsStartingAs(LineAt(p))

\* a line the general-events loop of lines 111-136 reads as an event: one
\* that ZOOCLIENT_INFO_REGEX does not match and that one of the four event
\* expressions matches
IsEvent(line) ==
  /\ ~IsZooClient(line)
  /\ \/ IsMasterRebound(line) \/ IsStartup(line)
     \/ IsShutdown(line) \/ IsBranched(line)

C7_NoCyclesMessage ==
  /\ (Len(logs) >= 1 /\ NoMarkerNoSwitch) =>
       /\ pc # "failed"
       /\ stdout \in {<<>>, <<Text(NO_CYCLES)>>}
       /\ pc = "done" => stdout = <<Text(NO_CYCLES)>>
  /\ Len(logs) = 0 => pc # "failed"

\* C7 as amended: the same, when every master-rebound, startup, shutdown
\* and branched-data line of the files that is not also a ZooClient line
\* has a timestamp that parses.
EventsParse ==
  \A p \in LinePlaces : IsEvent(LineAt(p)) => LineAt(p).stamp # 0

C7_NoCyclesMessageWhenEventsParse ==
  /\ (Len(logs) >= 1 /\ NoMarkerNoSwitch /\ EventsParse) =>
       /\ pc # "failed"
       /\ stdout \in {<<>>, <<Text(NO_CYCLES)>>}
       /\ pc = "done" => stdout = <<Text(NO_CYCLES)>>
  /\ Len(logs) = 0 => pc # "failed"

\* A file with standalone events and nothing else: the events were
\* collected, and only the message is printed.
C7_Witness ==
  /\ pc = "done"
  /\ Len(logs) >= 1 /\ NoMarkerNoSwitch /\ EventsParse
  /\ Len(output_messages) = 2
  /\ stdout = <<Text(NO_CYCLES)>>

(***************************************************************************)
(* C8.  In the printed report the cycles appear in descending order of     *)
(* their start, and each cycle's transitions in ascending order of         *)
(* timestamp.  As stated this fails: line 176 sorts the pooled lines as    *)
(* text, which puts the cycles' lines in ascending order.                  *)
(***************************************************************************)
Printed(msg) == {i \in DOMAIN stdout : stdout[i] = msg}

\* each cycle's transitions are all printed, in ascending timestamp order
TransitionsAscending ==
  \A c \in DOMAIN election_cycles :
    LET out == get_log_messages(election_cycles[c]) IN
      /\ \A k \in DOMAIN out : Printed(out[k]) # {}
      /\ \A k, l \in 2..Len(out) : \A i \in Printed(out[k]), j \in Printed(out[l]) :
           i < j => out[k].timestamp <= out[l].timestamp

C8_CyclesDescending ==
  (pc = "done" /\ Len(election_cycles) > 0) =>
    /\ \A i, j \in DOMAIN stdout :
         (i < j /\ stdout[i].type = "election" /\ stdout[j].type = "election")
         => stdout[i].timestamp >= stdout[j].timestamp
    /\ TransitionsAscending

\* C8 as amended: the cycles are processed in descending order of their
\* start and appear in the printed report in ascending order of it; each
\* cycle's transitions appear in ascending order of timestamp.
C8_CyclesAscending ==
  (pc = "done" /\ Len(election_cycles) > 0) =>
    /\ \A i, j \in DOMAIN election_cycles :
         i < j => election_cycles[i].timestamp >= election_cycles[j].timestamp
    /\ \A i, j \in DOMAIN stdout :
         (i < j /\ stdout[i].type = "election" /\ stdout[j].type = "election")
         => stdout[i].timestamp <= stdout[j].timestamp
    /\ TransitionsAscending

\* Two cycles of different starts, one with two transitions of different
\* timestamps.
C8_Witness ==
  /\ pc = "done"
  /\ \E c, d \in DOMAIN election_cycles :
       /\ election_cycles[c].timestamp # election_cycles[d].timestamp
       /\ Len(election_cycles[c].type_switches) = 2
       /\ election_cycles[c].type_switches[1].timestamp
            # election_cycles[c].type_switches[2].timestamp

(***************************************************************************)
(* C9.  An event line of any kind, role-switch lines included, with a      *)
(* timestamp that does not parse makes the run fail and print no report    *)
(* line.  As stated this fails: a role-switch line's timestamp is parsed   *)
(* only when find_next_type_switch reaches the line.                       *)
(***************************************************************************)
\* a line the first pass parses the timestamp of
IsFirstPassParsed(line) == IsElectionStarted(line) \/ IsEvent(line)
\* a line one of the event expressions of the claim matches
IsAnyEvent(line) ==
  \/ IsElectionStarted(line) \/ IsMasterRebound(line) \/ IsStartup(line)
  \/ IsShutdown(line) \/ IsBranched(line) \/ IsStartingAs(line)

C9_AnyMalformedTimestampAborts ==
  (\E p \in LinePlaces :
     IsAnyEvent(LineAt(p)) /\ LineAt(p).stamp = 0)
  => (pc # "done" /\ stdout = <<>>)

\* the role-switch line find_next_type_switch stops at from position p
RECURSIVE NextSwitchIndex(_, _)
NextSwitchIndex(loglines, p) ==
  IF p >= Len(loglines) THEN 0
  ELSE IF IsStartingAs(loglines[p + 1]) THEN p + 1
  ELSE NextSwitchIndex(loglines, p + 1)

ReachesMalformedSwitch ==
  /\ pc = "find_switch"
  /\ NextSwitchIndex(logs[fi], pos) # 0
  /\ logs[fi][NextSwitchIndex(logs[fi], pos)].stamp = 0

\* C9 as amended: an election marker, or a master-rebound, startup,
\* shutdown or branched-data line that is not also a ZooClient line, whose
\* timestamp does not parse makes the run fail and print no report line;
\* so does a role-switch line whose timestamp does not parse, when
\* find_next_type_switch reaches it.
C9_ParsedMalformedTimestampAborts ==
  /\ []((\E p \in LinePlaces :
           IsFirstPassParsed(LineAt(p)) /\ LineAt(p).stamp = 0)
        => (pc # "done" /\ stdout = <<>>))
  /\ [][ReachesMalformedSwitch
          => (pc' = "failed" /\ error' = "ValueError" /\ stdout' = <<>>)]_vars

\* The second file's first pass fails on a timestamp, after the first
\* file gave a cycle or an event; nothing is printed.
C9_Witness ==
  /\ pc = "failed" /\ error = "ValueError"
  /\ fi = 2
  /\ Len(election_cycles) + Len(output_messages) > 0
  /\ stdout = <<>>

(***************************************************************************)
(* C10.  For every "Starting[N] as" line that find_next_type_switch        *)
(* reaches, it returns a transition whose role is MASTER or SLAVE as the   *)
(* line says, and never fails.  The code leaves mode unassigned when the   *)
(* line ends neither in "as master\n" nor in "as slave\n".                 *)
(***************************************************************************)
C10_AlwaysARole ==
  /\ error # "UnboundLocalError"
  /\ \A i \in DOMAIN emitted :
       /\ emitted[i].mode \in {MASTER, SLAVE}
       /\ emitted[i].mode = LineAt(emitted[i].src).end
====
